---- MODULE Spec2Model ----
(***************************************************************************)
(* Event ticket booking: BookingService (bookTicket / cancelBooking) over  *)
(* the Event, Booking and WaitingList tables, serialised per event id by   *)
(* an AsyncLock instance ({timeout: 5000, maxPending: 1000}).              *)
(*                                                                         *)
(* Every `await` of the service is one step of the call that executes it,  *)
(* so the states in the middle of an operation are states of the model.    *)
(* A query without ORDER BY (Booking.findOne) returns any matching row.    *)
(***************************************************************************)
EXTENDS Integers, Sequences, FiniteSets, TLC

\* ---------------------------------------------------------------- bounds
MaxEvents   == 2    \* events ever created
NumUsers    == 2    \* distinct user ids of the general specification
MaxTickets  == 2    \* largest totalTickets passed to initializeEvent
MaxBookings == 5    \* Booking rows ever created for an event that is the only one
MaxInFlight == 3    \* calls running or queued at one time, all events together
DeepRows    == 2    \* once this many Booking rows exist, calls arrive one at a time
                    \* and no further event is created; Booking rows per event
                    \* when several events exist
MaxN        == 2    \* largest N of the N-tickets / 2N-callers scenario

MaxPending  == 2    \* the lock's maxPending option (1000 in the source), scaled down

EventIds == 1..MaxEvents
Users    == 1..NumUsers
NoRow    == 0       \* a null row reference / a null position

VARIABLES
    events,       \* events[e]: the Event row of id e, or NoEvent
    bookings,     \* bookings[e]: the Booking rows of event e, in creation order
    waitingList,  \* waitingList[e]: the WaitingList rows of event e, in creation order
    locked,       \* locked[k]: AsyncLock holds a queue for key k (the lock is taken)
    queues,       \* queues[k]: the calls pending on key k, in queue order
    running,      \* running[e]: the calls executing their critical section on event e
    replies,      \* what each caller of the concurrent scenario got back (Off otherwise)
    statusCall    \* the getEventStatus call of the status scenario (Off otherwise)

vars == <<events, bookings, waitingList, locked, queues, running, replies, statusCall>>

NoEvent == [exists |-> FALSE, name |-> "", totalTickets |-> 0, availableTickets |-> 0]
Off     == <<>>

\* ------------------------------------------------------------ table reads
Exists(e) == events[e].exists

\* Booking rows of event e matching {userId} and, when given, a status.
BookingsOf(e, u) == {i \in DOMAIN bookings[e] : bookings[e][i].userId = u}
BookingsWith(e, u, s) == {i \in BookingsOf(e, u) : bookings[e][i].status = s}

\* Booking.count({where: {eventId, status}})
CountBookings(e, s) == Cardinality({i \in DOMAIN bookings[e] : bookings[e][i].status = s})

\* WaitingList rows of event e with status "waiting".
WaitingRows(e) == {i \in DOMAIN waitingList[e] : waitingList[e][i].status = "waiting"}

\* WaitingList.findOne({where: {eventId, status: "waiting"}, order: position ASC}):
\* the rows a query ordered by position ascending may return first.
FirstWaiting(e) ==
    {i \in WaitingRows(e) :
        \A j \in WaitingRows(e) : waitingList[e][i].position <= waitingList[e][j].position}

\* _getNextWaitingPosition: position of the last waiting row plus one, or 1 if none.
MaxPosition(S, e) ==
    CHOOSE p \in {waitingList[e][i].position : i \in S} :
        \A i \in S : waitingList[e][i].position <= p
GetNextWaitingPosition_FromZero(e) ==
    IF WaitingRows(e) = {} THEN 0 ELSE MaxPosition(WaitingRows(e), e) + 1
GetNextWaitingPosition(e) ==
    IF WaitingRows(e) = {} THEN 1 ELSE MaxPosition(WaitingRows(e), e) + 1

\* The unique index on waiting_lists (eventId, position).
PositionTaken(e, p) == \E i \in DOMAIN waitingList[e] : waitingList[e][i].position = p

\* The rows cancelBooking looks among: {eventId, userId, status: "confirmed"}.
Cancellable_AnyStatus(e, u) == BookingsOf(e, u)
Cancellable(e, u) == BookingsWith(e, u, "confirmed")

\* cancelBooking: event.decrement("availableTickets", {by: 1}) after an assignment.
AfterAssign_Keep(n) == n
AfterAssign(n) == n - 1

\* `if (!eventId || !userId)` of bookTicket and cancelBooking: a missing or
\* empty argument is falsy.
Missing == 0
EventArgs == {Missing} \cup EventIds
UserArgs == {Missing} \cup Users
Valid_EventOnly(e, u) == e # Missing
Valid(e, u) == e # Missing /\ u # Missing

\* The arguments of initializeEvent. A name is a string, empty or not. A ticket
\* count is a number num/den: an integer (50, 0, -5) or not (50.5).
Names == {"", "Concert"}
TicketInputs ==
    {<<num, 1>> : num \in (0 - 1)..MaxTickets} \cup {<<2 * num + 1, 2>> : num \in 0..MaxTickets}
IsInteger(t) == t[1] % t[2] = 0
Value(t) == t[1] \div t[2]

\* `!name || typeof name !== "string"` of initializeEvent, negated.
ValidName_Any(name) == TRUE
ValidName(name) == name # ""

\* `!Number.isInteger(totalTickets) || totalTickets < 1` of initializeEvent, negated.
ValidTickets_AllowZero(t) == IsInteger(t) /\ Value(t) >= 0
ValidTickets(t) == IsInteger(t) /\ Value(t) >= 1

\* `existingBooking.status !== "cancelled"` of bookTicket's duplicate check.
IsDuplicate_AnyStatus(status) == TRUE
IsDuplicate(status) == status # "cancelled"

\* `if (!event)` after Event.findByPk(eventId).
EventFound_Always(e) == TRUE
EventFound(e) == Exists(e)

\* `if (event.availableTickets > 0)` of bookTicket.
TicketsAvailable_AllowZero(n) == n >= 0
TicketsAvailable(n) == n > 0

\* ------------------------------------------------------------ the lock
\* The key bookTicket and cancelBooking pass to lock.acquire: the event id.
LockKey_Global(e) == 1
LockKey(e) == e

\* AsyncLock.acquire runs the function at once when no queue exists for the key.
LockFree_Always(k) == TRUE
LockFree(k) == ~locked[k]

\* Calls in flight on key k, as the set of their arrival ranks.
RunningOn(k) == {<<e, i>> \in EventIds \X (1..MaxInFlight) :
                    LockKey(e) = k /\ i \in DOMAIN running[e]}
InFlightOn(k) == Cardinality(RunningOn(k)) + Len(queues[k])
InFlight ==
    LET RECURSIVE Sum(_)
        Sum(n) == IF n = 0 THEN 0 ELSE Len(running[n]) + Len(queues[n]) + Sum(n - 1)
    IN Sum(MaxEvents)

TotalRows ==
    LET RECURSIVE Sum(_)
        Sum(n) == IF n = 0 THEN 0 ELSE Len(bookings[n]) + Sum(n - 1)
    IN Sum(MaxEvents)
\* bookTicket calls in flight for event e that may still create a Booking row.
BooksInFlight(e) ==
    Cardinality({i \in DOMAIN running[e] : running[e][i].op = "book"})
    + Cardinality({<<k, i>> \in EventIds \X (1..MaxPending) :
                      /\ i \in DOMAIN queues[k]
                      /\ queues[k][i].eventId = e
                      /\ queues[k][i].op = "book"
                      /\ ~queues[k][i].timedOut})
RowLimit(e) == IF \E d \in EventIds : d # e /\ Exists(d) THEN DeepRows ELSE MaxBookings

\* A call entering its critical section: its locals are unset. rank is the
\* call's place in the order of arrival among the calls in flight on its key,
\* waited tells whether it got the lock from the queue, avail0 is the event's
\* availableTickets when it got the lock.
NewCall(op, e, u, rank, waited) ==
    [op |-> op, userId |-> u, rank |-> rank, waited |-> waited,
     pc |-> IF op = "book" THEN "b_find" ELSE "c_find",
     avail0 |-> events[e].availableTickets,
     bk |-> NoRow, nw |-> NoRow, asg |-> NoRow, pos |-> NoRow, result |-> "none"]

\* A call pending in the lock's queue.
Pending(op, e, u, rank) ==
    [op |-> op, eventId |-> e, userId |-> u, rank |-> rank, timedOut |-> FALSE]

\* lock.acquire queues a new task at the end of the key's queue (queue.push).
Enqueue_AtFront(q, p) == <<p>> \o q
Enqueue(q, p) == Append(q, p)

\* What callers of the concurrent scenario observe; nothing is recorded otherwise.
Reply(u, res) ==
    replies' = IF replies = Off THEN replies ELSE [replies EXCEPT ![u] = res]

Init ==
    /\ events = [e \in EventIds |-> NoEvent]
    /\ bookings = [e \in EventIds |-> <<>>]
    /\ waitingList = [e \in EventIds |-> <<>>]
    /\ locked = [k \in EventIds |-> FALSE]
    /\ queues = [k \in EventIds |-> <<>>]
    /\ running = [e \in EventIds |-> <<>>]
    /\ replies = Off
    /\ statusCall = Off

\* ------------------------------------------------- initializeEvent(name, n)
\* Event.create({name, totalTickets, availableTickets: totalTickets}) under a new id.
InitializeEvent(name, t) ==
    /\ IF ~ValidName(name) \/ ~ValidTickets(t)
       THEN UNCHANGED events
       ELSE \E e \in EventIds :
          /\ ~Exists(e)
          /\ e > 1 => \A d \in EventIds : Len(bookings[d]) + BooksInFlight(d) < DeepRows
          /\ \A d \in EventIds : d < e => Exists(d)
          /\ events' = [events EXCEPT ![e] =
                 [exists |-> TRUE, name |-> name,
                  totalTickets |-> Value(t), availableTickets |-> Value(t)]]
    /\ UNCHANGED <<bookings, waitingList, locked, queues, running, replies, statusCall>>

\* ------------------------------------------- this.lock.acquire(eventId, fn)
\* A getEventStatus call for event e, reading or returned, is no longer alone
\* with the event once a bookTicket or cancelBooking for e arrives.
Started == statusCall # Off /\ statusCall.pc # "idle"
Overlapped(e) ==
    IF Started /\ statusCall.eventId = e
    THEN [statusCall EXCEPT !.quiet = FALSE]
    ELSE statusCall

\* The key's queue holds maxPending tasks: acquire rejects the new one.
Saturated_OneMore(k) == locked[k] /\ Len(queues[k]) > MaxPending
Saturated(k) == locked[k] /\ Len(queues[k]) >= MaxPending

Acquire(op, e, u) ==
    LET k == LockKey(e)
        rank == InFlightOn(k)
    IN  /\ statusCall' = Overlapped(e)
        /\ IF LockFree(k)
           THEN /\ locked' = [locked EXCEPT ![k] = TRUE]
                /\ running' = [running EXCEPT ![e] = Append(@, NewCall(op, e, u, rank, FALSE))]
                /\ Reply(u, "pending")
                /\ UNCHANGED queues
           ELSE IF Saturated(k)
           THEN /\ Reply(u, "LockSaturated")
                /\ UNCHANGED <<locked, queues, running>>
           ELSE /\ queues' = [queues EXCEPT ![k] = Enqueue(@, Pending(op, e, u, rank))]
                /\ Reply(u, "pending")
                /\ UNCHANGED <<locked, running>>

\* The calls the model lets arrive: up to MaxInFlight at a time while a single
\* event exists and no Booking row does, one fewer while the tables are small,
\* one at a time once they hold DeepRows Booking rows.
ArrivalLimit ==
    IF TotalRows >= DeepRows THEN 1
    ELSE IF TotalRows = 0 /\ Cardinality({e \in EventIds : Exists(e)}) <= 1
    THEN MaxInFlight
    ELSE MaxInFlight - 1
MayArrive(k) == InFlight < ArrivalLimit \/ Saturated(k)

\* A bookTicket(eventId, userId) call arrives and asks for the lock.
BookTicket(e, u) ==
    IF ~Valid(e, u)
    THEN /\ Reply(u, "InvalidArgument")
         /\ UNCHANGED <<events, bookings, waitingList, locked, queues, running, statusCall>>
    ELSE /\ MayArrive(LockKey(e))
         /\ Len(bookings[e]) + BooksInFlight(e) < RowLimit(e)
         /\ Acquire("book", e, u)
         /\ UNCHANGED <<events, bookings, waitingList>>

\* A cancelBooking(eventId, userId) call arrives and asks for the lock.
CancelBooking(e, u) ==
    IF ~Valid(e, u)
    THEN /\ Reply(u, "InvalidArgument")
         /\ UNCHANGED <<events, bookings, waitingList, locked, queues, running, statusCall>>
    ELSE /\ MayArrive(LockKey(e))
         /\ Acquire("cancel", e, u)
         /\ UNCHANGED <<events, bookings, waitingList>>

\* The lock's timeout fires for a call still pending: the call fails, its
\* entry stays in the queue and is skipped when its turn comes.
Timeout(k, i) ==
    /\ i \in DOMAIN queues[k]
    /\ ~queues[k][i].timedOut
    /\ queues' = [queues EXCEPT ![k][i].timedOut = TRUE]
    /\ Reply(queues[k][i].userId, "LockTimeout")
    /\ UNCHANGED <<events, bookings, waitingList, locked, running, statusCall>>

\* ---------------------------------------------------- steps of a running call
At(e, i, pc) == i \in DOMAIN running[e] /\ running[e][i].pc = pc
Goto(e, i, c) == running' = [running EXCEPT ![e][i] = c]
Throw_Stuck(e, i, err) == Goto(e, i, [running[e][i] EXCEPT !.result = err])
Throw(e, i, err) == Goto(e, i, [running[e][i] EXCEPT !.pc = "ret", !.result = err])

\* bookTicket: Booking.findOne({where: {eventId, userId}}) and the duplicate check.
BookFind(e, i) ==
    /\ At(e, i, "b_find")
    /\ LET c == running[e][i]
           found == BookingsOf(e, c.userId)
       IN  IF found = {}
           THEN Goto(e, i, [c EXCEPT !.pc = "b_event"])
           ELSE \E b \in found :
                   IF IsDuplicate(bookings[e][b].status)
                   THEN Throw(e, i, "DuplicateBooking")
                   ELSE Goto(e, i, [c EXCEPT !.pc = "b_event"])
    /\ UNCHANGED <<events, bookings, waitingList, locked, queues, replies, statusCall>>

\* bookTicket: Event.findByPk(eventId) and the branch on availableTickets.
BookEvent(e, i) ==
    /\ At(e, i, "b_event")
    /\ LET c == running[e][i]
       IN  IF ~EventFound(e)
           THEN Throw(e, i, "EventNotFound")
           ELSE IF TicketsAvailable(events[e].availableTickets)
           THEN Goto(e, i, [c EXCEPT !.pc = "b_dec"])
           ELSE Goto(e, i, [c EXCEPT !.pc = "b_pos"])
    /\ UNCHANGED <<events, bookings, waitingList, locked, queues, replies, statusCall>>

\* bookTicket, case 1: event.decrement("availableTickets", {by: 1}).
BookDecrement(e, i) ==
    /\ At(e, i, "b_dec")
    /\ events' = [events EXCEPT ![e].availableTickets = @ - 1]
    /\ Goto(e, i, [running[e][i] EXCEPT !.pc = "b_confirm"])
    /\ UNCHANGED <<bookings, waitingList, locked, queues, replies, statusCall>>

\* bookTicket, case 1: Booking.create({eventId, userId, status: "confirmed"}).
BookConfirm(e, i) ==
    /\ At(e, i, "b_confirm")
    /\ LET c == running[e][i]
       IN  /\ bookings' = [bookings EXCEPT ![e] = Append(@,
                  [userId |-> c.userId, status |-> "confirmed", position |-> NoRow])]
           /\ Goto(e, i, [c EXCEPT !.pc = "ret", !.result = "confirmed",
                                   !.bk = Len(bookings[e]) + 1])
    /\ UNCHANGED <<events, waitingList, locked, queues, replies, statusCall>>

\* bookTicket, case 2: nextPosition = await this._getNextWaitingPosition(eventId).
BookPosition(e, i) ==
    /\ At(e, i, "b_pos")
    /\ Goto(e, i, [running[e][i] EXCEPT !.pc = "b_wait", !.pos = GetNextWaitingPosition(e)])
    /\ UNCHANGED <<events, bookings, waitingList, locked, queues, replies, statusCall>>

\* bookTicket, case 2: Booking.create({..., status: "waiting", position: nextPosition}).
BookWait(e, i) ==
    /\ At(e, i, "b_wait")
    /\ LET c == running[e][i]
       IN  /\ bookings' = [bookings EXCEPT ![e] = Append(@,
                  [userId |-> c.userId, status |-> "waiting", position |-> c.pos])]
           /\ Goto(e, i, [c EXCEPT !.pc = "b_wl", !.bk = Len(bookings[e]) + 1])
    /\ UNCHANGED <<events, waitingList, locked, queues, replies, statusCall>>

\* bookTicket, case 2: WaitingList.create({eventId, userId, position: nextPosition});
\* the unique index on (eventId, position) rejects a position already stored.
BookEnqueue(e, i) ==
    /\ At(e, i, "b_wl")
    /\ LET c == running[e][i]
       IN  IF PositionTaken(e, c.pos)
           THEN /\ Throw(e, i, "UniqueViolation")
                /\ UNCHANGED waitingList
           ELSE /\ waitingList' = [waitingList EXCEPT ![e] = Append(@,
                       [userId |-> c.userId, position |-> c.pos, status |-> "waiting",
                        booking |-> c.bk])]
                /\ Goto(e, i, [c EXCEPT !.pc = "ret", !.result = "waiting"])
    /\ UNCHANGED <<events, bookings, locked, queues, replies, statusCall>>

\* cancelBooking: Booking.findOne({where: {eventId, userId, status: "confirmed"}}).
CancelFind(e, i) ==
    /\ At(e, i, "c_find")
    /\ LET c == running[e][i]
           found == Cancellable(e, c.userId)
       IN  IF found = {}
           THEN Throw(e, i, "BookingNotFound")
           ELSE \E b \in found : Goto(e, i, [c EXCEPT !.pc = "c_upd", !.bk = b])
    /\ UNCHANGED <<events, bookings, waitingList, locked, queues, replies, statusCall>>

\* cancelBooking: booking.update({status: "cancelled"}).
CancelUpdate(e, i) ==
    /\ At(e, i, "c_upd")
    /\ bookings' = [bookings EXCEPT ![e][running[e][i].bk].status = "cancelled"]
    /\ Goto(e, i, [running[e][i] EXCEPT !.pc = "c_inc"])
    /\ UNCHANGED <<events, waitingList, locked, queues, replies, statusCall>>

\* cancelBooking: Event.findByPk(eventId), then event.increment("availableTickets").
CancelIncrement(e, i) ==
    /\ At(e, i, "c_inc")
    /\ events' = [events EXCEPT ![e].availableTickets = @ + 1]
    /\ Goto(e, i, [running[e][i] EXCEPT !.pc = "c_next"])
    /\ UNCHANGED <<bookings, waitingList, locked, queues, replies, statusCall>>

\* cancelBooking: nextWaiting = WaitingList.findOne(waiting, order by position ASC).
CancelNext(e, i) ==
    /\ At(e, i, "c_next")
    /\ LET c == running[e][i]
       IN  IF FirstWaiting(e) = {}
           THEN Goto(e, i, [c EXCEPT !.pc = "ret", !.result = "cancelled"])
           ELSE \E w \in FirstWaiting(e) : Goto(e, i, [c EXCEPT !.pc = "a_wl", !.nw = w])
    /\ UNCHANGED <<events, bookings, waitingList, locked, queues, replies, statusCall>>

\* _assignWaitingUserToTicket: WaitingList.update({status: "assigned"},
\* {where: {eventId, userId}}) marks every row of that user for the event.
AssignList(e, i) ==
    /\ At(e, i, "a_wl")
    /\ LET c == running[e][i]
           u == waitingList[e][c.nw].userId
       IN  /\ waitingList' = [waitingList EXCEPT ![e] =
                  [j \in DOMAIN @ |-> IF @[j].userId = u
                                      THEN [@[j] EXCEPT !.status = "assigned"]
                                      ELSE @[j]]]
           /\ Goto(e, i, [c EXCEPT !.pc = "a_find"])
    /\ UNCHANGED <<events, bookings, locked, queues, replies, statusCall>>

\* _assignWaitingUserToTicket: Booking.findOne({where: {eventId, userId, status: "waiting"}}).
AssignFind(e, i) ==
    /\ At(e, i, "a_find")
    /\ LET c == running[e][i]
           found == BookingsWith(e, waitingList[e][c.nw].userId, "waiting")
       IN  IF found = {}
           THEN Goto(e, i, [c EXCEPT !.pc = "c_dec"])
           ELSE \E b \in found : Goto(e, i, [c EXCEPT !.pc = "a_upd", !.asg = b])
    /\ UNCHANGED <<events, bookings, waitingList, locked, queues, replies, statusCall>>

\* _assignWaitingUserToTicket: booking.update({status: "confirmed"}).
AssignUpdate(e, i) ==
    /\ At(e, i, "a_upd")
    /\ bookings' = [bookings EXCEPT ![e][running[e][i].asg].status = "confirmed"]
    /\ Goto(e, i, [running[e][i] EXCEPT !.pc = "c_dec"])
    /\ UNCHANGED <<events, waitingList, locked, queues, replies, statusCall>>

\* cancelBooking: event.decrement("availableTickets") after the assignment.
CancelDecrement(e, i) ==
    /\ At(e, i, "c_dec")
    /\ events' = [events EXCEPT ![e].availableTickets = AfterAssign(@)]
    /\ Goto(e, i, [running[e][i] EXCEPT !.pc = "ret", !.result = "cancelled"])
    /\ UNCHANGED <<bookings, waitingList, locked, queues, replies, statusCall>>

\* ------------------------------------------------------- leaving the lock
RECURSIVE SkipTimedOut(_)
\* The lock drops the tasks at the head of the queue whose wait has timed out.
SkipTimedOut_None(q) == q
SkipTimedOut(q) ==
    IF q # <<>> /\ Head(q).timedOut THEN SkipTimedOut(Tail(q)) ELSE q

Without(s, i) == SubSeq(s, 1, i - 1) \o SubSeq(s, i + 1, Len(s))

\* The function passed to acquire has returned or thrown: the call answers its
\* caller and the lock starts the next pending task of the key, or is deleted.
Return(e, i) ==
    /\ At(e, i, "ret")
    /\ LET c == running[e][i]
           k == LockKey(e)
           live == SkipTimedOut(queues[k])
           admit == live # <<>>
           others(x) == IF x = e THEN Without(running[e], i) ELSE running[x]
           left == {others(x)[j].rank : <<x, j>> \in
                       {<<x, j>> \in RunningOn(k) : j \in DOMAIN others(x)}}
                   \cup {live[j].rank : j \in DOMAIN live}
           rerank(r) == Cardinality({s \in left : s < r})
           kept(x) == IF LockKey(x) = k
                      THEN [j \in DOMAIN others(x) |->
                               [others(x)[j] EXCEPT !.rank = rerank(@)]]
                      ELSE others(x)
           next(x) == IF admit /\ Head(live).eventId = x
                      THEN <<NewCall(Head(live).op, x, Head(live).userId,
                                     rerank(Head(live).rank), TRUE)>>
                      ELSE <<>>
       IN  /\ running' = [x \in EventIds |-> kept(x) \o next(x)]
           /\ queues' = [queues EXCEPT ![k] =
                  IF admit
                  THEN [j \in DOMAIN Tail(live) |->
                           [Tail(live)[j] EXCEPT !.rank = rerank(@)]]
                  ELSE <<>>]
           /\ locked' = [locked EXCEPT ![k] = admit]
           /\ Reply(c.userId, c.result)
    /\ UNCHANGED <<events, bookings, waitingList, statusCall>>

Next ==
    \/ \E name \in Names, t \in TicketInputs : InitializeEvent(name, t)
    \/ \E e \in EventArgs, u \in UserArgs : BookTicket(e, u)
    \/ \E e \in EventArgs, u \in UserArgs : CancelBooking(e, u)
    \/ \E k \in EventIds, i \in 1..MaxPending : Timeout(k, i)
    \/ \E e \in EventIds, i \in 1..MaxInFlight : BookFind(e, i)
    \/ \E e \in EventIds, i \in 1..MaxInFlight : BookEvent(e, i)
    \/ \E e \in EventIds, i \in 1..MaxInFlight : BookDecrement(e, i)
    \/ \E e \in EventIds, i \in 1..MaxInFlight : BookConfirm(e, i)
    \/ \E e \in EventIds, i \in 1..MaxInFlight : BookPosition(e, i)
    \/ \E e \in EventIds, i \in 1..MaxInFlight : BookWait(e, i)
    \/ \E e \in EventIds, i \in 1..MaxInFlight : BookEnqueue(e, i)
    \/ \E e \in EventIds, i \in 1..MaxInFlight : CancelFind(e, i)
    \/ \E e \in EventIds, i \in 1..MaxInFlight : CancelUpdate(e, i)
    \/ \E e \in EventIds, i \in 1..MaxInFlight : CancelIncrement(e, i)
    \/ \E e \in EventIds, i \in 1..MaxInFlight : CancelNext(e, i)
    \/ \E e \in EventIds, i \in 1..MaxInFlight : AssignList(e, i)
    \/ \E e \in EventIds, i \in 1..MaxInFlight : AssignFind(e, i)
    \/ \E e \in EventIds, i \in 1..MaxInFlight : AssignUpdate(e, i)
    \/ \E e \in EventIds, i \in 1..MaxInFlight : CancelDecrement(e, i)
    \/ \E e \in EventIds, i \in 1..MaxInFlight : Return(e, i)

Spec == Init /\ [][Next]_vars

\* ================================================================ claims
Calls(e) == {running[e][i] : i \in DOMAIN running[e]}
Active(e, u) == BookingsWith(e, u, "confirmed") \cup BookingsWith(e, u, "waiting")

\* C1: no overselling. In every reachable state, also in the middle of a
\* bookTicket or cancelBooking, the number of confirmed bookings of an event
\* is at most the event's totalTickets.
C1_NoOverselling ==
    \A e \in EventIds : CountBookings(e, "confirmed") <= events[e].totalTickets

\* A sold-out event in the middle of a cancelBooking that has just confirmed a
\* waiting user and has not yet decremented availableTickets again.
C1_Witness ==
    \E e \in EventIds : \E c \in Calls(e) :
        /\ c.pc = "c_dec" /\ c.asg # NoRow
        /\ CountBookings(e, "confirmed") = events[e].totalTickets

\* C3: for every (eventId, userId) at most one Booking row is confirmed or waiting.
C3_OneActiveBooking ==
    \A e \in EventIds : \A u \in Users : Cardinality(Active(e, u)) <= 1

\* C4: FIFO promotion. If A's bookTicket returned waiting before B's did (A's
\* WaitingList row was created first), B's booking is not confirmed before A's:
\* whenever B's booking has been confirmed, A's has been confirmed too.
C4_FifoPromotion ==
    \A e \in EventIds : \A i, j \in DOMAIN waitingList[e] :
        LET a == waitingList[e][i]
            b == waitingList[e][j]
        IN  (i < j /\ a.userId # b.userId /\ bookings[e][b.booking].status # "waiting")
                => bookings[e][a.booking].status # "waiting"

\* C5: a cancelBooking that succeeds while a Booking of the event is waiting
\* returns an assigned booking that is confirmed and is the waiting booking of
\* smallest position; it returns no assigned booking only when none is waiting.
C5_CancelPromotes ==
    \A e \in EventIds : \A c \in Calls(e) :
        (c.op = "cancel" /\ c.pc = "ret" /\ c.result = "cancelled") =>
            IF c.asg = NoRow
            THEN CountBookings(e, "waiting") = 0
            ELSE /\ bookings[e][c.asg].status = "confirmed"
                 /\ \A b \in DOMAIN bookings[e] :
                        bookings[e][b].status = "waiting"
                            => bookings[e][c.asg].position <= bookings[e][b].position

\* C6: in every reachable state, also between the increment and the decrement
\* of cancelBooking, 0 <= availableTickets <= totalTickets for every event.
C6_AvailableInRange ==
    \A e \in EventIds :
        /\ 0 <= events[e].availableTickets
        /\ events[e].availableTickets <= events[e].totalTickets

\* A cancelBooking between its increment and its decrement, on an event whose
\* availableTickets has reached totalTickets.
C6_Witness ==
    \E e \in EventIds : \E c \in Calls(e) :
        /\ c.pc \in {"a_wl", "a_find", "a_upd", "c_dec"}
        /\ events[e].availableTickets = events[e].totalTickets

\* C7: a successful cancelBooking leaves availableTickets as it found it when
\* it assigned the ticket to a waiting user, and one higher when it did not.
C7_CancelNetEffect ==
    \A e \in EventIds : \A c \in Calls(e) :
        (c.op = "cancel" /\ c.pc = "ret" /\ c.result = "cancelled") =>
            events[e].availableTickets = c.avail0 + (IF c.nw # NoRow THEN 0 ELSE 1)

\* A cancelBooking about to return after it assigned the ticket to a waiting user.
C7_Witness ==
    \E e \in EventIds : \E c \in Calls(e) :
        c.op = "cancel" /\ c.pc = "ret" /\ c.result = "cancelled" /\ c.asg # NoRow

\* C8: mutual exclusion. At no time are two critical sections of bookTicket or
\* cancelBooking executing for the same event id.
C8_MutualExclusion ==
    \A e \in EventIds : Len(running[e]) <= 1

\* A call inside its critical section while another call for the same event,
\* not timed out, is pending on the lock.
C8_Witness ==
    \E e \in EventIds :
        /\ \E c \in Calls(e) : c.pc \notin {"b_find", "c_find", "ret"}
        /\ \E j \in DOMAIN queues[e] : queues[e][j].eventId = e /\ ~queues[e][j].timedOut

\* C9: callers are admitted in the order in which they asked for the lock. No
\* call runs while a call that asked for the same lock earlier, and has not
\* timed out, is still pending; pending calls that have not timed out are
\* queued in their order of arrival.
C9_FifoAdmission ==
    \A k \in EventIds : \A j \in DOMAIN queues[k] :
        ~queues[k][j].timedOut =>
            /\ \A <<e, i>> \in RunningOn(k) : running[e][i].rank < queues[k][j].rank
            /\ \A h \in DOMAIN queues[k] :
                  (h < j /\ ~queues[k][h].timedOut) => queues[k][h].rank < queues[k][j].rank

\* A call that got the lock from the queue runs while a later call is pending.
C9_Witness ==
    \E e \in EventIds :
        /\ \E c \in Calls(e) : c.waited
        /\ \E j \in DOMAIN queues[e] : ~queues[e][j].timedOut

\* C10: operations on different events are independent. A call waits only
\* while a call for its own event is running, and a step that is not a step of
\* a call on an existing event leaves that event's row, bookings and
\* waiting-list rows unchanged.
NoCrossBlocking ==
    \A k \in EventIds : \A j \in DOMAIN queues[k] :
        running[queues[k][j].eventId] # <<>>
FrameStep ==
    \A e \in EventIds :
        (Exists(e) /\ running'[e] = running[e]) =>
            /\ events'[e] = events[e]
            /\ bookings'[e] = bookings[e]
            /\ waitingList'[e] = waitingList[e]
C10_Independence == [][FrameStep]_vars /\ []NoCrossBlocking

\* A bookTicket on one event has completed its critical section while the
\* lock of another event is held by a call in the middle of its own.
C10_Witness ==
    \E a, b \in EventIds :
        /\ a # b
        /\ \E c \in Calls(a) : c.pc \notin {"b_find", "c_find", "ret"}
        /\ \E c \in Calls(b) : c.pc = "ret" /\ c.result = "confirmed"
        /\ locked[a] /\ locked[b]

\* ------------------------------------------- N tickets, 2N concurrent callers
\* A new event of N tickets and 2N callers with distinct user ids, each of
\* which calls bookTicket once, at any time (the unit test of the service
\* issues them with Promise.all).
InitConcurrent ==
    \E n \in 1..MaxN :
        /\ events = [e \in EventIds |->
               IF e = 1 THEN [exists |-> TRUE, name |-> "Concert",
                              totalTickets |-> n, availableTickets |-> n]
               ELSE NoEvent]
        /\ replies = [u \in 1..(2 * n) |-> "none"]
        /\ statusCall = Off
        /\ bookings = [e \in EventIds |-> <<>>]
        /\ waitingList = [e \in EventIds |-> <<>>]
        /\ locked = [k \in EventIds |-> FALSE]
        /\ queues = [k \in EventIds |-> <<>>]
        /\ running = [e \in EventIds |-> <<>>]

ConcurrentBook(u) ==
    /\ replies[u] = "none"
    /\ Acquire("book", 1, u)
    /\ UNCHANGED <<events, bookings, waitingList>>

NextConcurrent ==
    \/ \E u \in DOMAIN replies : ConcurrentBook(u)
    \/ \E i \in 1..MaxPending : Timeout(1, i)
    \/ \E i \in 1..(2 * MaxN) : BookFind(1, i)
    \/ \E i \in 1..(2 * MaxN) : BookEvent(1, i)
    \/ \E i \in 1..(2 * MaxN) : BookDecrement(1, i)
    \/ \E i \in 1..(2 * MaxN) : BookConfirm(1, i)
    \/ \E i \in 1..(2 * MaxN) : BookPosition(1, i)
    \/ \E i \in 1..(2 * MaxN) : BookWait(1, i)
    \/ \E i \in 1..(2 * MaxN) : BookEnqueue(1, i)
    \/ \E i \in 1..(2 * MaxN) : Return(1, i)

SpecConcurrent == InitConcurrent /\ [][NextConcurrent]_vars

Callers == DOMAIN replies
AllReturned == \A u \in Callers : replies[u] \notin {"none", "pending"}
NoLockFailure == \A u \in Callers : replies[u] \notin {"LockTimeout", "LockSaturated"}
Returned(res) == {u \in Callers : replies[u] = res}
\* The queue positions returned to the callers that were told "waiting".
ReturnedPositions ==
    {bookings[1][b].position : b \in {b \in DOMAIN bookings[1] :
        bookings[1][b].status = "waiting" /\ replies[bookings[1][b].userId] = "waiting"}}
HalfAndHalf ==
    LET n == events[1].totalTickets
    IN  /\ Cardinality(Returned("confirmed")) = n
        /\ Cardinality(Returned("waiting")) = n
        /\ events[1].availableTickets = 0
        /\ ReturnedPositions = 1..n
        /\ Cardinality({b \in DOMAIN bookings[1] : bookings[1][b].status = "waiting"}) = n

TablesUnchanged(e) ==
    /\ events'[e] = events[e]
    /\ bookings'[e] = bookings[e]
    /\ waitingList'[e] = waitingList[e]

\* C11: while a user has a confirmed or waiting Booking for an event, a further
\* bookTicket of that user for the event fails with DuplicateBooking and has
\* created nothing, whatever cancelled bookings the user also has: no
\* bookTicket gets past its duplicate check while another Booking of its user
\* is active.
C11_DuplicateRejected ==
    \A e \in EventIds : \A c \in Calls(e) :
        (c.op = "book" /\ c.pc # "b_find" /\ Active(e, c.userId) \ {c.bk} # {})
            => (c.result = "DuplicateBooking" /\ c.bk = NoRow)

\* C12: a cancelBooking whose user has no confirmed Booking for the event (none
\* at all, only waiting, only cancelled) fails with BookingNotFound, and no
\* step of that call changes the event's row, bookings or waiting-list rows.
CancelNotFoundStep ==
    \A e \in EventIds : \A i \in DOMAIN running[e] :
        LET c == running[e][i]
        IN  /\ (c.op = "cancel" /\ c.pc = "c_find" /\ running'[e] # running[e]
                  /\ BookingsWith(e, c.userId, "confirmed") = {})
               => /\ i \in DOMAIN running'[e]
                  /\ running'[e][i] = [c EXCEPT !.pc = "ret", !.result = "BookingNotFound"]
                  /\ TablesUnchanged(e)
            /\ (c.op = "cancel" /\ c.result = "BookingNotFound")
               => /\ bookings'[e] = bookings[e]
                  /\ waitingList'[e] = waitingList[e]
                  /\ events[e].exists => events'[e] = events[e]
C12_CancelNotFound == [][CancelNotFoundStep]_vars

\* A cancelBooking has failed with BookingNotFound for a user whose bookings
\* for the event are all waiting or cancelled, and who has at least one.
C12_Witness ==
    \E e \in EventIds : \E c \in Calls(e) :
        /\ c.op = "cancel" /\ c.pc = "ret" /\ c.result = "BookingNotFound"
        /\ BookingsOf(e, c.userId) # {}

\* C13: when all the bookings of a user for an existing event are cancelled,
\* bookTicket for that user does not fail with DuplicateBooking and creates a
\* new Booking: confirmed if availableTickets was positive, waiting otherwise.
\* (The event exists when the call looks it up: the call did not end with
\* EventNotFound. The branch is the one taken at the lookup; only the waiting
\* branch computes a position.)
RebookCreates ==
    \A e \in EventIds : \A c \in Calls(e) :
        (/\ c.op = "book" /\ c.pc = "ret" /\ events[e].exists /\ c.result # "EventNotFound"
         /\ \A b \in BookingsOf(e, c.userId) \ {c.bk} : bookings[e][b].status = "cancelled")
        => /\ c.result # "DuplicateBooking"
           /\ c.bk \in BookingsOf(e, c.userId)
           /\ bookings[e][c.bk].status = IF c.pos = NoRow THEN "confirmed" ELSE "waiting"
BranchStep ==
    \A e \in EventIds : \A i \in DOMAIN running[e] :
        LET c == running[e][i]
        IN  (c.op = "book" /\ c.pc = "b_event" /\ events[e].exists /\ running'[e] # running[e])
            => /\ i \in DOMAIN running'[e]
               /\ running'[e][i].pos = NoRow
               /\ running'[e][i].pc =
                      IF events[e].availableTickets > 0 THEN "b_dec" ELSE "b_pos"
C13_RebookAfterCancel == []RebookCreates /\ [][BranchStep]_vars

\* A bookTicket returns a new booking to a user who has cancelled two earlier ones.
C13_Witness ==
    \E e \in EventIds : \E c \in Calls(e) :
        /\ c.op = "book" /\ c.pc = "ret" /\ c.result \in {"confirmed", "waiting"}
        /\ Cardinality(BookingsWith(e, c.userId, "cancelled")) >= 2
        /\ Active(e, c.userId) = {c.bk}

\* C14: the queue positions handed out for an event are strictly increasing
\* over its whole history: the position a bookTicket computes is greater than
\* the position of every waiting-list row created before, whatever its status.
C14_PositionsIncrease ==
    \A e \in EventIds : \A c \in Calls(e) :
        c.pos # NoRow =>
            \A w \in DOMAIN waitingList[e] :
                waitingList[e][w].booking # c.bk => waitingList[e][w].position < c.pos

\* C15: with no operation in progress, a Booking has a position if and only if
\* its status is waiting; a promoted booking has lost its position.
C15_PositionIffWaiting ==
    (\A e \in EventIds : running[e] = <<>>) =>
        \A e \in EventIds : \A b \in DOMAIN bookings[e] :
            (bookings[e][b].position # NoRow) <=> (bookings[e][b].status = "waiting")

\* C16: the only status changes of a Booking are waiting to confirmed, made by
\* the promotion inside a cancelBooking, and confirmed to cancelled, made by a
\* cancelBooking of the booking's own user; rows are never removed.
LifecycleStep ==
    \A e \in EventIds : \A b \in DOMAIN bookings[e] :
        /\ b \in DOMAIN bookings'[e]
        /\ bookings'[e][b].userId = bookings[e][b].userId
        /\ bookings'[e][b].status # bookings[e][b].status =>
              \/ /\ bookings[e][b].status = "waiting"
                 /\ bookings'[e][b].status = "confirmed"
                 /\ \E c \in Calls(e) : c.op = "cancel" /\ c.pc = "a_upd" /\ c.asg = b
              \/ /\ bookings[e][b].status = "confirmed"
                 /\ bookings'[e][b].status = "cancelled"
                 /\ \E c \in Calls(e) : /\ c.op = "cancel" /\ c.pc = "c_upd" /\ c.bk = b
                                        /\ c.userId = bookings[e][b].userId
C16_Lifecycle == [][LifecycleStep]_vars

\* A booking that was waiting, was promoted and has been cancelled, while
\* another booking of the event is waiting.
C16_Witness ==
    \E e \in EventIds : \E b \in DOMAIN bookings[e] :
        /\ bookings[e][b].status = "cancelled" /\ bookings[e][b].position # NoRow
        /\ CountBookings(e, "waiting") > 0

\* C20: bookTicket for an event id that does not exist fails with
\* EventNotFound and creates no Booking and no waiting-list row.
C20_EventNotFound ==
    \A e \in EventIds :
        ~events[e].exists =>
            /\ bookings[e] = <<>> /\ waitingList[e] = <<>>
            /\ \A c \in Calls(e) :
                  /\ c.op = "book" => c.pc \in {"b_find", "b_event", "ret"}
                  /\ (c.op = "book" /\ c.pc = "ret") => c.result = "EventNotFound"

\* A bookTicket for an event id that does not exist has failed with EventNotFound.
C20_Witness ==
    \E e \in EventIds : \E c \in Calls(e) :
        ~events[e].exists /\ c.op = "book" /\ c.pc = "ret" /\ c.result = "EventNotFound"

\* The calls of event e started from the lock's queue in this step (the call
\* that held the lock has returned, so no other call of the key is at its start).
Admitted(e) ==
    {j \in DOMAIN running'[e] :
        running'[e][j].waited /\ running'[e][j].pc \in {"b_find", "c_find"}}

\* C17: a bookTicket or cancelBooking that does not get the event lock within
\* the lock's timeout fails with LockTimeout and performs no mutation. The step
\* in which a pending call times out changes no table and no running call; a
\* timed-out entry leaves the queue without ever being started: when entries
\* leave a queue, all but the last have timed out, and a call is started from
\* the last one exactly when it has not timed out.
TimeoutStep ==
    \A k \in EventIds :
        LET q == queues[k]
            n == Len(q) - Len(queues'[k])
        IN  /\ (n = 0 /\ \E i \in DOMAIN q : ~q[i].timedOut /\ queues'[k][i].timedOut)
               => /\ running' = running
                  /\ \A e \in EventIds : TablesUnchanged(e)
            /\ n > 0 =>
                  /\ \A e \in EventIds : TablesUnchanged(e)
                  /\ \A i \in 1..(n - 1) : q[i].timedOut
                  /\ IF q[n].timedOut
                     THEN /\ queues'[k] = <<>>
                          /\ \A e \in EventIds :
                                IF LockKey(e) = k THEN Admitted(e) = {}
                                                  ELSE running'[e] = running[e]
                     ELSE \A e \in EventIds :
                             IF e = q[n].eventId
                             THEN \E j \in DOMAIN running'[e] :
                                     /\ Admitted(e) = {j}
                                     /\ running'[e][j].op = q[n].op
                                     /\ running'[e][j].userId = q[n].userId
                             ELSE IF LockKey(e) = k THEN Admitted(e) = {}
                                                    ELSE running'[e] = running[e]
C17_LockTimeout == [][TimeoutStep]_vars

\* The call holding an event's lock is about to return while the pending call
\* next in line has timed out and a later one has not, and the event has bookings.
C17_Witness ==
    \E k \in EventIds :
        /\ Len(queues[k]) >= 2
        /\ queues[k][1].timedOut /\ ~queues[k][2].timedOut
        /\ \E c \in Calls(k) : c.pc = "ret"
        /\ bookings[k] # <<>>

\* C18: the calls queued for one event's lock never exceed the lock's pending
\* bound; a call that arrives when the bound is reached fails at once with
\* LockSaturated: the step that rejects it changes nothing but its reply, and
\* the rejected caller is never queued, never runs and gets no Booking.
QueueBounded ==
    /\ \A k \in EventIds : Len(queues[k]) <= MaxPending
    /\ \A u \in Callers :
          replies[u] = "LockSaturated" =>
              /\ BookingsOf(1, u) = {}
              /\ \A k \in EventIds : \A i \in DOMAIN queues[k] : queues[k][i].userId # u
              /\ \A e \in EventIds : \A c \in Calls(e) : c.userId # u
RejectStep ==
    \A u \in Callers :
        (replies[u] # "LockSaturated" /\ replies'[u] = "LockSaturated")
            => /\ replies[u] = "none"
               /\ Len(queues[1]) = MaxPending
               /\ UNCHANGED <<events, bookings, waitingList, locked, queues, running>>
C18_LockSaturated == []QueueBounded /\ [][RejectStep]_vars

\* A caller has been rejected with LockSaturated while the queue is full and
\* the call holding the lock has already written.
C18_Witness ==
    /\ \E u \in Callers : replies[u] = "LockSaturated"
    /\ Len(queues[1]) = MaxPending
    /\ events[1].availableTickets < events[1].totalTickets

\* ------------------------------------------ calls with missing arguments
\* An event with n tickets of which user 1 holds one; every caller, the one
\* with no user id included, then makes one call, bookTicket or cancelBooking,
\* with or without an event id, and its reply is recorded.
InitValidation ==
    \E n \in 1..MaxTickets :
        /\ events = [e \in EventIds |->
               IF e = 1 THEN [exists |-> TRUE, name |-> "Concert",
                              totalTickets |-> n, availableTickets |-> n - 1]
               ELSE NoEvent]
        /\ bookings = [e \in EventIds |->
               IF e = 1 THEN <<[userId |-> 1, status |-> "confirmed", position |-> NoRow]>>
               ELSE <<>>]
        /\ replies = [u \in UserArgs |-> "none"]
        /\ statusCall = Off
        /\ waitingList = [e \in EventIds |-> <<>>]
        /\ locked = [k \in EventIds |-> FALSE]
        /\ queues = [k \in EventIds |-> <<>>]
        /\ running = [e \in EventIds |-> <<>>]

FirstBook(e, u) == replies[u] = "none" /\ BookTicket(e, u)
FirstCancel(e, u) == replies[u] = "none" /\ CancelBooking(e, u)

NextValidation ==
    \/ \E e \in EventArgs, u \in UserArgs : FirstBook(e, u)
    \/ \E e \in EventArgs, u \in UserArgs : FirstCancel(e, u)
    \/ \E k \in EventIds, i \in 1..MaxPending : Timeout(k, i)
    \/ \E e \in EventIds, i \in 1..MaxInFlight : BookFind(e, i)
    \/ \E e \in EventIds, i \in 1..MaxInFlight : BookEvent(e, i)
    \/ \E e \in EventIds, i \in 1..MaxInFlight : BookDecrement(e, i)
    \/ \E e \in EventIds, i \in 1..MaxInFlight : BookConfirm(e, i)
    \/ \E e \in EventIds, i \in 1..MaxInFlight : BookPosition(e, i)
    \/ \E e \in EventIds, i \in 1..MaxInFlight : BookWait(e, i)
    \/ \E e \in EventIds, i \in 1..MaxInFlight : BookEnqueue(e, i)
    \/ \E e \in EventIds, i \in 1..MaxInFlight : CancelFind(e, i)
    \/ \E e \in EventIds, i \in 1..MaxInFlight : CancelUpdate(e, i)
    \/ \E e \in EventIds, i \in 1..MaxInFlight : CancelIncrement(e, i)
    \/ \E e \in EventIds, i \in 1..MaxInFlight : CancelNext(e, i)
    \/ \E e \in EventIds, i \in 1..MaxInFlight : AssignList(e, i)
    \/ \E e \in EventIds, i \in 1..MaxInFlight : AssignFind(e, i)
    \/ \E e \in EventIds, i \in 1..MaxInFlight : AssignUpdate(e, i)
    \/ \E e \in EventIds, i \in 1..MaxInFlight : CancelDecrement(e, i)
    \/ \E e \in EventIds, i \in 1..MaxInFlight : Return(e, i)

SpecValidation == InitValidation /\ [][NextValidation]_vars

\* C19: a bookTicket or cancelBooking with a missing or empty event id or user
\* id fails with InvalidArgument without asking for the lock and without
\* changing any state: the step that answers InvalidArgument changes nothing
\* but the reply, whether the lock is free, held or has calls pending; the
\* caller without a user id never gets another answer, and no rejected caller
\* and no missing user id is ever queued for, or running under, a lock.
NeverAcquires ==
    /\ replies[Missing] \in {"none", "InvalidArgument"}
    /\ \A k \in EventIds : \A i \in DOMAIN queues[k] :
          /\ queues[k][i].userId # Missing
          /\ replies[queues[k][i].userId] # "InvalidArgument"
    /\ \A e \in EventIds : \A c \in Calls(e) :
          /\ c.userId # Missing
          /\ replies[c.userId] # "InvalidArgument"
InvalidStep ==
    \A u \in UserArgs :
        (replies[u] # "InvalidArgument" /\ replies'[u] = "InvalidArgument")
            => /\ replies[u] = "none"
               /\ UNCHANGED <<events, bookings, waitingList, locked, queues, running>>
C19_InvalidArgument == []NeverAcquires /\ [][InvalidStep]_vars

\* The call without a user id and a call of a user without an event id have
\* both failed with InvalidArgument while another user's call holds the lock
\* of event 1 in the middle of its writes.
C19_Witness ==
    /\ replies[Missing] = "InvalidArgument"
    /\ \E u \in Users : replies[u] = "InvalidArgument"
    /\ locked[1] /\ \E c \in Calls(1) : c.pc \in {"b_confirm", "c_inc"}

\* ------------------------------------------------ getEventStatus(eventId)
\* The call before it starts; its fields are the locals of getEventStatus.
\* quiet tells whether no bookTicket or cancelBooking for the event was in
\* progress when the call started and none has arrived since, up to now.
NoStatus ==
    [pc |-> "idle", eventId |-> Missing, quiet |-> FALSE, totalTickets |-> 0,
     availableTickets |-> 0, waitingListCount |-> 0, bookedTickets |-> 0,
     result |-> "none"]

\* getEventStatus(eventId) is called: `if (!eventId) throw`, no lock is taken.
GetEventStatus(e) ==
    /\ statusCall # Off
    /\ statusCall.pc \in {"idle", "done"}
    /\ statusCall' =
          IF e = Missing
          THEN [NoStatus EXCEPT !.pc = "done", !.result = "InvalidArgument"]
          ELSE [NoStatus EXCEPT !.pc = "s_event", !.eventId = e,
                                !.quiet = (InFlightOn(LockKey(e)) = 0)]
    /\ UNCHANGED <<events, bookings, waitingList, locked, queues, running, replies>>

\* getEventStatus's own `if (!event)` after its findByPk.
StatusFound_Always(e) == TRUE
StatusFound(e) == Exists(e)

\* event = await Event.findByPk(eventId); `if (!event) throw`.
StatusEvent ==
    /\ statusCall # Off
    /\ statusCall.pc = "s_event"
    /\ LET e == statusCall.eventId
       IN  statusCall' =
              IF ~StatusFound(e)
              THEN [statusCall EXCEPT !.pc = "done", !.result = "EventNotFound"]
              ELSE [statusCall EXCEPT !.pc = "s_waiting",
                                      !.totalTickets = events[e].totalTickets,
                                      !.availableTickets = events[e].availableTickets]
    /\ UNCHANGED <<events, bookings, waitingList, locked, queues, running, replies>>

\* waitingCount = await WaitingList.count({where: {eventId, status: "waiting"}}).
StatusWaiting ==
    /\ statusCall # Off
    /\ statusCall.pc = "s_waiting"
    /\ statusCall' = [statusCall EXCEPT !.pc = "s_booked",
                         !.waitingListCount = Cardinality(WaitingRows(statusCall.eventId))]
    /\ UNCHANGED <<events, bookings, waitingList, locked, queues, running, replies>>

\* confirmedCount = await Booking.count({where: {eventId, status: "confirmed"}});
\* the call returns the counts with the event's fields as read by findByPk.
StatusBooked ==
    /\ statusCall # Off
    /\ statusCall.pc = "s_booked"
    /\ statusCall' = [statusCall EXCEPT !.pc = "done", !.result = "ok",
                         !.bookedTickets = CountBookings(statusCall.eventId, "confirmed")]
    /\ UNCHANGED <<events, bookings, waitingList, locked, queues, running, replies>>

\* The status scenario: bookTicket and cancelBooking calls for event 1, which
\* has n tickets, while getEventStatus is called again and again, for event 1,
\* for an event id that does not exist and without an event id.
InitStatus ==
    \E n \in 1..MaxTickets :
        /\ events = [e \in EventIds |->
               IF e = 1 THEN [exists |-> TRUE, name |-> "Concert",
                              totalTickets |-> n, availableTickets |-> n]
               ELSE NoEvent]
        /\ bookings = [e \in EventIds |-> <<>>]
        /\ waitingList = [e \in EventIds |-> <<>>]
        /\ locked = [k \in EventIds |-> FALSE]
        /\ queues = [k \in EventIds |-> <<>>]
        /\ running = [e \in EventIds |-> <<>>]
        /\ replies = Off
        /\ statusCall = NoStatus

NextStatus ==
    \/ \E e \in EventArgs : GetEventStatus(e)
    \/ StatusEvent
    \/ StatusWaiting
    \/ StatusBooked
    \/ \E u \in Users : BookTicket(1, u)
    \/ \E u \in Users : CancelBooking(1, u)
    \/ \E i \in 1..MaxPending : Timeout(1, i)
    \/ \E i \in 1..MaxInFlight : BookFind(1, i)
    \/ \E i \in 1..MaxInFlight : BookEvent(1, i)
    \/ \E i \in 1..MaxInFlight : BookDecrement(1, i)
    \/ \E i \in 1..MaxInFlight : BookConfirm(1, i)
    \/ \E i \in 1..MaxInFlight : BookPosition(1, i)
    \/ \E i \in 1..MaxInFlight : BookWait(1, i)
    \/ \E i \in 1..MaxInFlight : BookEnqueue(1, i)
    \/ \E i \in 1..MaxInFlight : CancelFind(1, i)
    \/ \E i \in 1..MaxInFlight : CancelUpdate(1, i)
    \/ \E i \in 1..MaxInFlight : CancelIncrement(1, i)
    \/ \E i \in 1..MaxInFlight : CancelNext(1, i)
    \/ \E i \in 1..MaxInFlight : AssignList(1, i)
    \/ \E i \in 1..MaxInFlight : AssignFind(1, i)
    \/ \E i \in 1..MaxInFlight : AssignUpdate(1, i)
    \/ \E i \in 1..MaxInFlight : CancelDecrement(1, i)
    \/ \E i \in 1..MaxInFlight : Return(1, i)

SpecStatus == InitStatus /\ [][NextStatus]_vars

\* ------------------------------------------------------------ C21 .. C30
\* C21: with no bookTicket or cancelBooking of the event in progress,
\* getEventStatus returns the event's stored availableTickets, the number of
\* Booking rows with status confirmed and the number of Booking rows with
\* status waiting.
C21_StatusAtRest ==
    (statusCall.pc = "done" /\ statusCall.result = "ok" /\ statusCall.quiet) =>
        LET e == statusCall.eventId
        IN  /\ statusCall.availableTickets = events[e].availableTickets
            /\ statusCall.bookedTickets = CountBookings(e, "confirmed")
            /\ statusCall.waitingListCount = CountBookings(e, "waiting")

\* C22: initializeEvent with a non-empty name and an integer totalTickets >= 1
\* creates an event with availableTickets = totalTickets and no bookings or
\* waiting-list rows; with an empty name or a totalTickets that is zero,
\* negative or not an integer it creates no event: every event has a non-empty
\* name and a positive total, and the step that creates it sets
\* availableTickets to the total and finds no row for the new id.
EventsValid ==
    \A e \in EventIds :
        events[e].exists => events[e].name # "" /\ events[e].totalTickets >= 1
CreateStep ==
    \A e \in EventIds :
        (~events[e].exists /\ events'[e].exists) =>
            /\ events'[e].availableTickets = events'[e].totalTickets
            /\ bookings'[e] = <<>> /\ waitingList'[e] = <<>>
            /\ \A d \in EventIds \ {e} : events'[d] = events[d]
C22_InitializeEvent == []EventsValid /\ [][CreateStep]_vars

\* A second event has just been created with the largest ticket count while
\* the first one has bookings.
C22_Witness ==
    /\ events[2].exists /\ events[2].availableTickets = MaxTickets
    /\ events[2].totalTickets = MaxTickets /\ bookings[2] = <<>>
    /\ bookings[1] # <<>>

\* C23: a bookTicket that passes the duplicate and event checks returns
\* confirmed with a null position when it found availableTickets positive (it
\* computed no position), and otherwise returns waiting with the position it
\* computed, which is greater than that of every other waiting row.
C23_BookResult ==
    \A e \in EventIds : \A c \in Calls(e) :
        (c.op = "book" /\ c.pc = "ret"
           /\ c.result \notin {"DuplicateBooking", "EventNotFound"})
        => IF c.pos = NoRow
           THEN c.result = "confirmed" /\ bookings[e][c.bk].position = NoRow
           ELSE /\ c.result = "waiting"
                /\ bookings[e][c.bk].position = c.pos
                /\ \A w \in WaitingRows(e) :
                      waitingList[e][w].booking # c.bk => waitingList[e][w].position < c.pos

\* C24: a bookTicket ends having done one whole branch: a confirmed Booking
\* and no waiting-list row, or a waiting Booking together with exactly one
\* waiting waiting-list row of the same user and position; never the Booking
\* half of the waiting branch alone.
C24_OneBranch ==
    \A e \in EventIds : \A c \in Calls(e) :
        (c.op = "book" /\ c.pc = "ret" /\ c.bk # NoRow) =>
            LET rows == {w \in DOMAIN waitingList[e] : waitingList[e][w].booking = c.bk}
            IN  IF bookings[e][c.bk].status = "confirmed"
                THEN rows = {}
                ELSE /\ Cardinality(rows) = 1
                     /\ \A w \in rows : /\ waitingList[e][w].userId = c.userId
                                        /\ waitingList[e][w].position = c.pos
                                        /\ waitingList[e][w].status = "waiting"

\* C25: a promotion changes only the selected waiting-list row and the one
\* Booking it belongs to: a row stops waiting only as the row selected by the
\* cancelBooking in progress, a Booking is confirmed only as the booking of
\* that row, and no row ever changes its position.
C25_PromotionFrame ==
    [][\A e \in EventIds :
          /\ \A w \in DOMAIN waitingList[e] :
                /\ waitingList'[e][w].position = waitingList[e][w].position
                /\ waitingList'[e][w].status # waitingList[e][w].status
                   => \E c \in Calls(e) : c.op = "cancel" /\ c.pc = "a_wl" /\ c.nw = w
          /\ \A b \in DOMAIN bookings[e] :
                (bookings[e][b].status = "waiting" /\ bookings'[e][b].status = "confirmed")
                   => \E c \in Calls(e) : /\ c.op = "cancel" /\ c.pc = "a_upd"
                                          /\ waitingList[e][c.nw].booking = b]_vars

\* C26: no bookTicket computes a position that a waiting-list row of the event
\* already has, whatever the row's status, so WaitingList.create never fails
\* on the unique index (eventId, position).
C26_PositionFree ==
    \A e \in EventIds : \A c \in Calls(e) :
        /\ c.result # "UniqueViolation"
        /\ (c.op = "book" /\ c.pc = "b_wl") => ~PositionTaken(e, c.pos)

\* C27: no two waiting-list rows of an event that are both waiting have the
\* same position, and every such position is at least 1.
C27_WaitingPositions ==
    \A e \in EventIds : \A i \in WaitingRows(e) :
        /\ waitingList[e][i].position >= 1
        /\ \A j \in WaitingRows(e) :
              waitingList[e][i].position = waitingList[e][j].position => i = j

\* Two users wait behind a promoted one: positions 2 and 3 are waiting.
C27_Witness ==
    \E e \in EventIds :
        /\ Cardinality(WaitingRows(e)) >= 2
        /\ \E w \in DOMAIN waitingList[e] : waitingList[e][w].status = "assigned"

\* C28: with no operation in progress, every waiting Booking has exactly one
\* waiting waiting-list row of the same user and position, and every waiting
\* waiting-list row has exactly one waiting Booking of the same user and position.
C28_InStep ==
    (\A e \in EventIds : running[e] = <<>>) =>
        \A e \in EventIds :
            /\ \A b \in DOMAIN bookings[e] :
                  bookings[e][b].status = "waiting" =>
                      Cardinality({w \in WaitingRows(e) :
                          /\ waitingList[e][w].userId = bookings[e][b].userId
                          /\ waitingList[e][w].position = bookings[e][b].position}) = 1
            /\ \A w \in WaitingRows(e) :
                  Cardinality({b \in DOMAIN bookings[e] :
                      /\ bookings[e][b].status = "waiting"
                      /\ bookings[e][b].userId = waitingList[e][w].userId
                      /\ bookings[e][b].position = waitingList[e][w].position}) = 1

\* --------------------------------------------- a sold-out event with a queue
\* Event 1 after n bookTicket calls that were confirmed (users 1..n) and w that
\* went to the waiting list (users n+1..n+w, positions 1..w). Holder 1 and a
\* new requester, user n+w+1, then make one call each, at the same time.
InitQueue ==
    \E n \in 1..MaxN, w \in 0..MaxN :
        /\ events = [e \in EventIds |->
               IF e = 1 THEN [exists |-> TRUE, name |-> "Concert",
                              totalTickets |-> n, availableTickets |-> 0]
               ELSE NoEvent]
        /\ bookings = [e \in EventIds |->
               IF e = 1
               THEN [b \in 1..(n + w) |->
                       IF b <= n
                       THEN [userId |-> b, status |-> "confirmed", position |-> NoRow]
                       ELSE [userId |-> b, status |-> "waiting", position |-> b - n]]
               ELSE <<>>]
        /\ waitingList = [e \in EventIds |->
               IF e = 1
               THEN [j \in 1..w |-> [userId |-> n + j, position |-> j,
                                     status |-> "waiting", booking |-> n + j]]
               ELSE <<>>]
        /\ replies = [u \in {1, n + w + 1} |-> "none"]
        /\ locked = [k \in EventIds |-> FALSE]
        /\ queues = [k \in EventIds |-> <<>>]
        /\ running = [e \in EventIds |-> <<>>]
        /\ statusCall = Off

QueueBook(e, u) ==
    /\ replies[u] = "none"
    /\ Acquire("book", e, u)
    /\ UNCHANGED <<events, bookings, waitingList>>

QueueCancel(e, u) ==
    /\ replies[u] = "none"
    /\ Acquire("cancel", e, u)
    /\ UNCHANGED <<events, bookings, waitingList>>

NextQueue ==
    \/ \E e \in EventIds, u \in DOMAIN replies : QueueBook(e, u)
    \/ \E e \in EventIds, u \in DOMAIN replies : QueueCancel(e, u)
    \/ \E k \in EventIds, i \in 1..MaxPending : Timeout(k, i)
    \/ \E e \in EventIds, i \in 1..MaxInFlight : BookFind(e, i)
    \/ \E e \in EventIds, i \in 1..MaxInFlight : BookEvent(e, i)
    \/ \E e \in EventIds, i \in 1..MaxInFlight : BookDecrement(e, i)
    \/ \E e \in EventIds, i \in 1..MaxInFlight : BookConfirm(e, i)
    \/ \E e \in EventIds, i \in 1..MaxInFlight : BookPosition(e, i)
    \/ \E e \in EventIds, i \in 1..MaxInFlight : BookWait(e, i)
    \/ \E e \in EventIds, i \in 1..MaxInFlight : BookEnqueue(e, i)
    \/ \E e \in EventIds, i \in 1..MaxInFlight : CancelFind(e, i)
    \/ \E e \in EventIds, i \in 1..MaxInFlight : CancelUpdate(e, i)
    \/ \E e \in EventIds, i \in 1..MaxInFlight : CancelIncrement(e, i)
    \/ \E e \in EventIds, i \in 1..MaxInFlight : CancelNext(e, i)
    \/ \E e \in EventIds, i \in 1..MaxInFlight : AssignList(e, i)
    \/ \E e \in EventIds, i \in 1..MaxInFlight : AssignFind(e, i)
    \/ \E e \in EventIds, i \in 1..MaxInFlight : AssignUpdate(e, i)
    \/ \E e \in EventIds, i \in 1..MaxInFlight : CancelDecrement(e, i)
    \/ \E e \in EventIds, i \in 1..MaxInFlight : Return(e, i)

SpecQueue == InitQueue /\ [][NextQueue]_vars

NewRequester == CHOOSE u \in DOMAIN replies : u # 1
\* The queue was not empty at the start: its first row is not the new requester's.
HadWaiting == waitingList[1] # <<>> /\ waitingList[1][1].userId # NewRequester
\* Holder 1's cancelBooking and the new requester's bookTicket for event 1
\* have both obtained the lock and ended.
BothDone ==
    /\ replies[1] = "cancelled"
    /\ replies[NewRequester] \in {"confirmed", "waiting", "UniqueViolation"}

\* C29: no queue jumping. On a sold-out event with waiting users, when a
\* holder's cancelBooking and a new requester's bookTicket run concurrently
\* and both have ended, in either order: the earliest waiting user is
\* confirmed, the new requester is waiting (its call returned waiting and it
\* has a waiting queue row) and is not confirmed, and the number of confirmed
\* bookings equals totalTickets.
C29_NoQueueJumping ==
    (HadWaiting /\ BothDone) =>
        /\ bookings[1][waitingList[1][1].booking].status = "confirmed"
        /\ BookingsWith(1, NewRequester, "confirmed") = {}
        /\ replies[NewRequester] = "waiting"
        /\ \E w \in WaitingRows(1) : waitingList[1][w].userId = NewRequester
        /\ CountBookings(1, "confirmed") = events[1].totalTickets

\* The same scenario with the scheduling of the runtime: a call that is in its
\* critical section keeps being resumed, every query it awaits completes.
Progress(e) ==
    \E i \in 1..MaxInFlight :
        \/ BookFind(e, i) \/ BookEvent(e, i) \/ BookDecrement(e, i) \/ BookConfirm(e, i)
        \/ BookPosition(e, i) \/ BookWait(e, i) \/ BookEnqueue(e, i)
        \/ CancelFind(e, i) \/ CancelUpdate(e, i) \/ CancelIncrement(e, i)
        \/ CancelNext(e, i) \/ AssignList(e, i) \/ AssignFind(e, i)
        \/ AssignUpdate(e, i) \/ CancelDecrement(e, i) \/ Return(e, i)
SpecQueueFair == SpecQueue /\ \A e \in EventIds : WF_vars(Progress(e))

\* C30: the event lock is always released. The lock of a key is held exactly
\* while a call is in its critical section and calls are pending only behind
\* a held lock; a held lock is eventually free again, whether its holder
\* returns or fails inside the critical section, and a pending call
\* eventually leaves the queue.
NoLeak ==
    \A k \in EventIds :
        /\ locked[k] <=> RunningOn(k) # {}
        /\ queues[k] # <<>> => locked[k]
C30_LockReleased ==
    /\ []NoLeak
    /\ \A k \in EventIds : locked[k] ~> ~locked[k]
    /\ \A k \in EventIds : (queues[k] # <<>>) ~> (queues[k] = <<>>)

\* A call has failed inside its critical section and has not yet left it,
\* while another call is pending on the same lock.
C30_Witness ==
    \E e \in EventIds : \E c \in Calls(e) :
        /\ c.pc = "ret"
        /\ c.result \in {"DuplicateBooking", "EventNotFound", "BookingNotFound",
                         "UniqueViolation"}
        /\ queues[LockKey(e)] # <<>>

\* ------------------------------------------------------------ C31 .. C35
\* A getEventStatus call is between two of its awaits.
Reading == statusCall.pc \in {"s_event", "s_waiting", "s_booked"}

\* The results of getEventStatus: it has no LockTimeout or LockSaturated among
\* them, an id of no event gives EventNotFound and an id of an event gives ok.
StatusResults ==
    /\ statusCall.result \in {"none", "ok", "InvalidArgument", "EventNotFound"}
    /\ (statusCall.pc = "done" /\ statusCall.eventId # Missing) =>
           statusCall.result = IF Exists(statusCall.eventId) THEN "ok" ELSE "EventNotFound"

\* The call never waits for a lock: whoever holds the lock of its event and
\* whatever is queued behind it, its next read can be made.
NeverBlocked == Reading => ENABLED (StatusEvent \/ StatusWaiting \/ StatusBooked)

\* A step of getEventStatus changes no event, Booking or waiting-list row, no
\* lock and no queue of pending calls.
StatusStep ==
    statusCall'.pc # statusCall.pc =>
        UNCHANGED <<events, bookings, waitingList, locked, queues, running, replies>>

\* C31: getEventStatus never takes the event lock and never writes. It can
\* make each of its reads and return while a bookTicket or cancelBooking holds
\* the lock of the same event, it never fails with LockTimeout or
\* LockSaturated, its steps leave every event, Booking and waiting-list row
\* and every lock unchanged, and for an id of no event it fails with
\* EventNotFound.
C31_StatusLockFree == []StatusResults /\ []NeverBlocked /\ [][StatusStep]_vars

\* getEventStatus has read the event and the waiting count of event 1 and is
\* about to count the bookings, while a bookTicket holds the lock of event 1
\* between its decrement and its Booking.create and another call is pending.
C31_Witness ==
    /\ statusCall.pc = "s_booked"
    /\ statusCall.eventId = 1
    /\ locked[LockKey(1)]
    /\ queues[LockKey(1)] # <<>>
    /\ \E c \in Calls(1) : c.pc = "b_confirm"

\* No bookTicket or cancelBooking holds the lock of event e.
AtRest(e) == Exists(e) /\ ~locked[LockKey(e)]

\* C32: ticket conservation. Whenever no bookTicket or cancelBooking holds the
\* lock of an event, its availableTickets plus the number of its Booking rows
\* with status confirmed equals its totalTickets, whatever calls succeeded or
\* failed before.
C32_Conservation ==
    \A e \in EventIds :
        AtRest(e) =>
            events[e].availableTickets + CountBookings(e, "confirmed")
                = events[e].totalTickets

\* An event at rest after a cancellation, a promotion and a bookTicket that
\* failed in WaitingList.create: it has a cancelled and a confirmed Booking and
\* a waiting Booking with no waiting-list row that is waiting.
C32_Witness ==
    \E e \in EventIds :
        /\ AtRest(e)
        /\ CountBookings(e, "cancelled") >= 1
        /\ CountBookings(e, "confirmed") >= 1
        /\ CountBookings(e, "waiting") >= 1
        /\ WaitingRows(e) = {}

\* C33: no free ticket while someone waits. Whenever no operation holds the
\* lock of an event, if a Booking of the event has status waiting then the
\* event's availableTickets is 0.
C33_NoFreeTicketWhileWaiting ==
    \A e \in EventIds :
        (AtRest(e) /\ CountBookings(e, "waiting") > 0) =>
            events[e].availableTickets = 0

\* ------------------------------------- a sold-out event whose holders cancel
\* Event 1 as in the queue scenario, with n holders (users 1..n) and w < n
\* waiting users (users n+1..n+w, positions 1..w). Every holder calls
\* cancelBooking once and a new requester, user n+w+1, calls bookTicket once:
\* there are at least as many cancellations as users who wait or will wait.
InitServe ==
    \E n \in 1..MaxN, w \in 0..(MaxN - 1) :
        /\ w < n
        /\ events = [e \in EventIds |->
               IF e = 1 THEN [exists |-> TRUE, name |-> "Concert",
                              totalTickets |-> n, availableTickets |-> 0]
               ELSE NoEvent]
        /\ bookings = [e \in EventIds |->
               IF e = 1
               THEN [b \in 1..(n + w) |->
                       IF b <= n
                       THEN [userId |-> b, status |-> "confirmed", position |-> NoRow]
                       ELSE [userId |-> b, status |-> "waiting", position |-> b - n]]
               ELSE <<>>]
        /\ waitingList = [e \in EventIds |->
               IF e = 1
               THEN [j \in 1..w |-> [userId |-> n + j, position |-> j,
                                     status |-> "waiting", booking |-> n + j]]
               ELSE <<>>]
        /\ replies = [u \in (1..n) \cup {n + w + 1} |-> "none"]
        /\ locked = [k \in EventIds |-> FALSE]
        /\ queues = [k \in EventIds |-> <<>>]
        /\ running = [e \in EventIds |-> <<>>]
        /\ statusCall = Off

\* The users who hold a ticket at the start are users 1..totalTickets.
Holders == {u \in DOMAIN replies : u <= events[1].totalTickets}
HolderCancels == \E u \in Holders : QueueCancel(1, u)
RequesterBooks == \E u \in DOMAIN replies \ Holders : QueueBook(1, u)

NextServe ==
    \/ HolderCancels
    \/ RequesterBooks
    \/ \E i \in 1..MaxPending : Timeout(1, i)
    \/ \E i \in 1..MaxInFlight : BookFind(1, i)
    \/ \E i \in 1..MaxInFlight : BookEvent(1, i)
    \/ \E i \in 1..MaxInFlight : BookDecrement(1, i)
    \/ \E i \in 1..MaxInFlight : BookConfirm(1, i)
    \/ \E i \in 1..MaxInFlight : BookPosition(1, i)
    \/ \E i \in 1..MaxInFlight : BookWait(1, i)
    \/ \E i \in 1..MaxInFlight : BookEnqueue(1, i)
    \/ \E i \in 1..MaxInFlight : CancelFind(1, i)
    \/ \E i \in 1..MaxInFlight : CancelUpdate(1, i)
    \/ \E i \in 1..MaxInFlight : CancelIncrement(1, i)
    \/ \E i \in 1..MaxInFlight : CancelNext(1, i)
    \/ \E i \in 1..MaxInFlight : AssignList(1, i)
    \/ \E i \in 1..MaxInFlight : AssignFind(1, i)
    \/ \E i \in 1..MaxInFlight : AssignUpdate(1, i)
    \/ \E i \in 1..MaxInFlight : CancelDecrement(1, i)
    \/ \E i \in 1..MaxInFlight : Return(1, i)

\* Cancellations keep coming: a holder who has not called yet does call, and a
\* call in its critical section keeps being resumed.
SpecServe ==
    /\ InitServe
    /\ [][NextServe]_vars
    /\ WF_vars(HolderCancels)
    /\ WF_vars(Progress(1))

\* A cancelBooking of a holder did not get the lock.
CancelFailed == \E u \in Holders : replies[u] \in {"LockTimeout", "LockSaturated"}

\* C34: every waiting booking is eventually served. On an event with at least
\* as many cancellations to come as there are users waiting, a Booking with
\* status waiting is eventually confirmed, unless one of the cancellations
\* fails to get the lock.
C34_EventuallyServed ==
    \A b \in 1..(2 * MaxN) :
        (b \in DOMAIN bookings[1] /\ bookings[1][b].status = "waiting")
            ~> \/ b \in DOMAIN bookings[1] /\ bookings[1][b].status = "confirmed"
               \/ CancelFailed

\* C35: every result returned by getEventStatus, also one whose reads
\* interleave with a bookTicket or cancelBooking in progress on the same
\* event, has availableTickets + bookedTickets <= totalTickets.
C35_StatusWithinTotal ==
    (statusCall.pc = "done" /\ statusCall.result = "ok") =>
        statusCall.availableTickets + statusCall.bookedTickets
            <= statusCall.totalTickets
====
